---- MODULE Spec2Model ----
(***************************************************************************)
(* Program catalog service (backend/service_temp.py): the effort store     *)
(* with its four inheritable local profiles, and the program tree built    *)
(* from the cached flat list of current program rows.                      *)
(***************************************************************************)
EXTENDS Integers, Sequences, FiniteSets, TLC

VARIABLES
    efforts,        \* SoftwareEffortModel table: pk -> row
    profiles,       \* the four profile tables: aspect -> (pk -> data)
    nextPk,         \* next SoftwareEffortModel pk / uuid to hand out
    programRows,    \* ProgramCatalogInfoModel table: set of rows
    linkFieldIsM2M, \* linked_software_efforts is a ManyToManyField
    outcome,        \* what the last service call did and returned
    cache,          \* the TTLCache entry of _get_all_program_dicts
    now,            \* the clock the cache reads, in seconds
    treeResult,     \* what get_all_programs_as_tree last returned
    flatResult,     \* what get_all_programs last returned
    txns,           \* the save transactions running side by side
    effortsResult,  \* what get_efforts_for_program last returned
    programResult   \* what get_program_by_id last returned

storeVars == <<efforts, profiles, nextPk, linkFieldIsM2M>>

readVars == <<cache, now, treeResult, flatResult, effortsResult, programResult>>

vars == <<efforts, profiles, nextPk, programRows, linkFieldIsM2M, outcome,
          cache, now, treeResult, flatResult, txns, effortsResult, programResult>>

(***************************************************************************)
(* Bounds of the model.                                                    *)
(***************************************************************************)
MaxEfforts == 2     \* effort rows ever created

(***************************************************************************)
(* Values.  None / a null foreign key is 0; pks, uuids and profile         *)
(* contents are positive.                                                  *)
(***************************************************************************)
Null == 0

\* a uuid no effort ever gets (uuids are minted by the store, never taken
\* from the payload)
UnknownUuid == MaxEfforts + 1

\* what uuid.UUID() rejects
MalformedUuid == Null - 1

SOW == "statement_of_work_profile"
TPOC == "technical_points_of_contact"
DEV == "developer_setup"
LOC == "work_location"

Aspects == {SOW, TPOC, DEV, LOC}

\* the order in which save_efforts_for_program handles the four aspects
AspectOrder == <<SOW, TPOC, DEV, LOC>>

\* the contents a payload can carry for a profile: two different ones
DataValues == {1, 2}

(***************************************************************************)
(* Storage helpers.                                                        *)
(***************************************************************************)
\* the row set of a table after deleting one row
RemoveRow(rows, id) == [i \in (DOMAIN rows) \ {id} |-> rows[i]]

\* the row set of a table after inserting or overwriting one row
PutRow(rows, id, row) == [i \in (DOMAIN rows) \cup {id} |-> IF i = id THEN row ELSE rows[i]]

\* pk the store gives a new profile row
NewProfileId(rows) ==
    CHOOSE i \in 1..(Cardinality(DOMAIN rows) + 1) :
        /\ i \notin DOMAIN rows
        /\ \A j \in 1..(i - 1) : j \in DOMAIN rows

\* Model.hard_delete() of a profile row
hard_delete_profile(profs, aspect, id) ==
    [profs EXCEPT ![aspect] = RemoveRow(@, id)]

\* SoftwareEffortModel.objects.filter(uuid=u).first(): the pk or Null
EffortByUuid(effs, u) ==
    IF \E e \in DOMAIN effs : effs[e].uuid = u
    THEN CHOOSE e \in DOMAIN effs : effs[e].uuid = u
    ELSE Null

\* a lookup that falls back on the first row whatever the program_id
FirstProgramRow(rows, id) ==
    IF rows = {} THEN Null
    ELSE (CHOOSE r \in rows : \A q \in rows : r.pk <= q.pk).pk

\* ProgramCatalogInfoModel.objects.filter(program_id=id).first(): pk or Null
ProgramByProgramId(rows, id) ==
    LET hits == {r \in rows : r.program_id = id}
    IN  IF hits = {} THEN Null
        ELSE (CHOOSE r \in hits : \A q \in hits : r.pk <= q.pk).pk

(***************************************************************************)
(* Payloads (the SoftwareEffort DTO handed to save_efforts_for_program).   *)
(*   present      FALSE for a None / empty payload                         *)
(*   uuid         Null, or the uuid the caller names                       *)
(*   parent_uuid  Null, or the uuid of the parent the caller names         *)
(*   inherit[a]   the inherit_<a> flag                                     *)
(*   data[a]      Null, or the contents supplied for aspect a              *)
(*   links        [given |-> FALSE], or the list of raw items              *)
(* An identifier is [kind |-> "uuid" | "digits" | "empty", v |-> number],  *)
(* or NoIdent for Python's None.  A raw item carries an identifier as a    *)
(* plain string, as a string with surrounding blanks, or as a dict under   *)
(* one of the keys uuid, id, pk; a dict can also carry none.               *)
(***************************************************************************)
NoLinks == [given |-> FALSE, items |-> <<>>]

Links(items) == [given |-> TRUE, items |-> items]

UuidIdent(u) == [kind |-> "uuid", v |-> u]

DigitsIdent(n) == [kind |-> "digits", v |-> n]

EmptyIdent == [kind |-> "empty", v |-> Null]

NoIdent == [kind |-> "none", v |-> Null]

PlainItem(ident) == [form |-> "plain", ident |-> ident]

PaddedItem(ident) == [form |-> "padded", ident |-> ident]

KeyedItem(ident) == [form |-> "keyed", ident |-> ident]

KeylessItem == [form |-> "keyless", ident |-> NoIdent]

Payload(u, nm, pu, inh, dat, lk) ==
    [present |-> TRUE, uuid |-> u, name |-> nm, parent_uuid |-> pu,
     inherit |-> inh, data |-> dat, links |-> lk]

NoPayload ==
    [present |-> FALSE, uuid |-> Null, name |-> "", parent_uuid |-> Null,
     inherit |-> [a \in Aspects |-> TRUE], data |-> [a \in Aspects |-> Null],
     links |-> NoLinks]

(***************************************************************************)
(* Points of save_efforts_for_program at which a storage fault can be      *)
(* raised: an aspect name stands for that aspect's profile statement.      *)
(***************************************************************************)
NoFault == "none"

FaultPoints ==
    {"parent_lookup", "effort_lookup", "effort_write", "link_resolve", "link_write"}
        \cup Aspects

\* position of an aspect in AspectOrder
AspectIndex(a) == CHOOSE k \in 1..Len(AspectOrder) : AspectOrder[k] = a

(***************************************************************************)
(* save_efforts_for_program and its helpers.                               *)
(***************************************************************************)
\* _create_effort_relation: insert a profile row when there is data
create_effort_relation(profs, effort_data, aspect) ==
    LET relation_data == effort_data
    IN  IF relation_data # Null
        THEN LET id == NewProfileId(profs[aspect])
             IN  [profiles |-> [profs EXCEPT ![aspect] = PutRow(@, id, relation_data)],
                  rel |-> id]
        ELSE [profiles |-> profs, rel |-> Null]

\* manage_local_profile with the branch for "inherit is true" dropped
manage_local_profile_keep_on_inherit(profs, existing_rel, inherit_flag, input_profile_data, aspect) ==
    IF inherit_flag
    THEN [profiles |-> profs, rel |-> existing_rel]
    ELSE IF input_profile_data = Null
    THEN [profiles |-> profs, rel |-> existing_rel]
    ELSE IF existing_rel # Null
    THEN [profiles |-> [profs EXCEPT ![aspect] = PutRow(@, existing_rel, input_profile_data)],
          rel |-> existing_rel]
    ELSE create_effort_relation(profs, input_profile_data, aspect)

\* manage_local_profile clearing the reference without deleting the row
manage_local_profile_unlink_only(profs, existing_rel, inherit_flag, input_profile_data, aspect) ==
    IF inherit_flag
    THEN [profiles |-> profs, rel |-> Null]
    ELSE IF input_profile_data = Null
    THEN [profiles |-> profs, rel |-> existing_rel]
    ELSE IF existing_rel # Null
    THEN [profiles |-> [profs EXCEPT ![aspect] = PutRow(@, existing_rel, input_profile_data)],
          rel |-> existing_rel]
    ELSE create_effort_relation(profs, input_profile_data, aspect)

\* manage_local_profile always creating a row when data is supplied
manage_local_profile_always_create(profs, existing_rel, inherit_flag, input_profile_data, aspect) ==
    IF inherit_flag
    THEN [profiles |-> IF existing_rel # Null
                       THEN hard_delete_profile(profs, aspect, existing_rel)
                       ELSE profs,
          rel |-> Null]
    ELSE IF input_profile_data = Null
    THEN [profiles |-> profs, rel |-> existing_rel]
    ELSE create_effort_relation(profs, input_profile_data, aspect)

\* manage_local_profile taking "no data" as "clear the local profile"
manage_local_profile_clear_without_data(profs, existing_rel, inherit_flag, input_profile_data, aspect) ==
    IF inherit_flag \/ input_profile_data = Null
    THEN [profiles |-> IF existing_rel # Null
                       THEN hard_delete_profile(profs, aspect, existing_rel)
                       ELSE profs,
          rel |-> Null]
    ELSE IF existing_rel # Null
    THEN [profiles |-> [profs EXCEPT ![aspect] = PutRow(@, existing_rel, input_profile_data)],
          rel |-> existing_rel]
    ELSE create_effort_relation(profs, input_profile_data, aspect)

\* manage_local_profile: the profile table and the FK value after
\* reconciling one aspect of an existing effort
manage_local_profile(profs, existing_rel, inherit_flag, input_profile_data, aspect) ==
    IF inherit_flag
    THEN \* CASE A: delete the local override if it exists, return None
         [profiles |-> IF existing_rel # Null
                       THEN hard_delete_profile(profs, aspect, existing_rel)
                       ELSE profs,
          rel |-> Null]
    ELSE IF input_profile_data = Null
    THEN \* CASE B without data: keep what is there
         [profiles |-> profs, rel |-> existing_rel]
    ELSE IF existing_rel # Null
    THEN \* update the existing row in place
         [profiles |-> [profs EXCEPT ![aspect] = PutRow(@, existing_rel, input_profile_data)],
          rel |-> existing_rel]
    ELSE \* create a new row
         create_effort_relation(profs, input_profile_data, aspect)

\* whether the profile statement of an aspect reaches the store on update
UpdateTouches(existing_rel, inherit_flag, input_profile_data) ==
    \/ inherit_flag /\ existing_rel # Null
    \/ ~inherit_flag /\ input_profile_data # Null

\* whether the profile statement of an aspect reaches the store on create
CreateTouches(inherit_flag, input_profile_data) ==
    ~inherit_flag /\ input_profile_data # Null

\* the update branch's four manage_local_profile calls, AspectOrder[k..last]
RECURSIVE UpdateProfiles(_, _, _, _, _)
UpdateProfiles(profs, local, payload, k, last) ==
    IF k > last
    THEN [profiles |-> profs, local |-> local]
    ELSE LET a == AspectOrder[k]
             r == manage_local_profile(profs, local[a], payload.inherit[a],
                                       payload.data[a], a)
         IN  UpdateProfiles(r.profiles, [local EXCEPT ![a] = r.rel], payload, k + 1, last)

\* the create branch's four conditional _create_effort_relation calls
RECURSIVE CreateProfiles(_, _, _, _, _)
CreateProfiles(profs, local, payload, k, last) ==
    IF k > last
    THEN [profiles |-> profs, local |-> local]
    ELSE LET a == AspectOrder[k]
             r == IF CreateTouches(payload.inherit[a], payload.data[a])
                  THEN create_effort_relation(profs, payload.data[a], a)
                  ELSE [profiles |-> profs, rel |-> Null]
         IN  CreateProfiles(r.profiles, [local EXCEPT ![a] = r.rel], payload, k + 1, last)

\* the identifier of a raw item: str(raw_item).strip(), or for a dict the
\* str() of its first non-empty value under uuid, id, pk, else None
extract_identifier(raw_item) ==
    IF raw_item.form = "keyless" THEN NoIdent ELSE raw_item.ident

\* resolve_identifier_to_instance: the pk of the effort an identifier
\* names, by uuid first and by storage key for an all-digit identifier
resolve_identifier_to_instance(effs, identifier) ==
    IF identifier.kind \in {"empty", "none"} THEN Null
    ELSE LET found == IF identifier.kind = "uuid"
                      THEN EffortByUuid(effs, identifier.v)
                      ELSE Null
         IN  IF found # Null THEN found
             ELSE IF identifier.kind = "digits" /\ identifier.v \in DOMAIN effs
                  THEN identifier.v
                  ELSE Null

\* resolved_targets: the efforts the identifiers resolve to, in list order
RECURSIVE ResolvedTargets(_, _)
ResolvedTargets(effs, items) ==
    IF items = <<>> THEN <<>>
    ELSE LET target == resolve_identifier_to_instance(effs, extract_identifier(Head(items)))
             rest == ResolvedTargets(effs, Tail(items))
         IN  IF target # Null THEN <<target>> \o rest ELSE rest

\* resolved_ids that keeps every identifier as it was given
resolved_ids_as_given(effs, items) ==
    [i \in 1..Len(items) |-> extract_identifier(items[i])]

\* resolved_ids: per position the canonical uuid, or the identifier
ResolvedIds(effs, items) ==
    [i \in 1..Len(items) |->
        LET identifier == extract_identifier(items[i])
            target == resolve_identifier_to_instance(effs, identifier)
        IN  IF target # Null THEN UuidIdent(effs[target].uuid) ELSE identifier]

\* a linked-efforts pass that adds to the relation instead of setting it
write_links_added(effs, inst, items, isM2M) ==
    IF isM2M
    THEN LET seq == ResolvedTargets(effs, items)
         IN  [effs EXCEPT ![inst].linked = @ \cup {seq[i] : i \in 1..Len(seq)}]
    ELSE [effs EXCEPT ![inst].linked = ResolvedIds(effs, items)]

\* the effort table after the linked-efforts pass on effort `inst`
WriteLinks(effs, inst, items, isM2M) ==
    IF isM2M
    THEN LET seq == ResolvedTargets(effs, items)
         IN  [effs EXCEPT ![inst].linked = {seq[i] : i \in 1..Len(seq)}]
    ELSE [effs EXCEPT ![inst].linked = ResolvedIds(effs, items)]

\* whether the linked-efforts pass queries the store at all
LinkLookups(items) ==
    \E i \in 1..Len(items) : extract_identifier(items[i]).kind \notin {"empty", "none"}

\* a block that keeps the writes made before a fault
NotAtomic == FALSE

\* "with transaction.atomic()": a fault leaving the block undoes its writes
TransactionAtomic == TRUE

\* the store after a fault left the transaction: `before` when the block
\* is atomic, else whatever had been written
Rollback(before, written) == IF TransactionAtomic THEN before ELSE written

\* a create that takes the uuid the payload names as the row's own
payload_uuid_reused(db, effort_uuid) ==
    IF effort_uuid # Null THEN effort_uuid ELSE db.nextPk

\* the uuid of a created row: objects.create() is given no uuid, the row
\* gets a fresh one whatever the payload names
created_uuid(db, effort_uuid) == db.nextPk

\* the default of linked_software_efforts on a new row
EmptyLinked(isM2M) == IF isM2M THEN {} ELSE <<>>

\* a parent lookup that falls back to the first effort when the uuid
\* matches none
first_effort_as_parent(effs, parent_uuid_val, fault) ==
    IF parent_uuid_val = Null \/ fault = "parent_lookup" THEN Null
    ELSE IF EffortByUuid(effs, parent_uuid_val) # Null
    THEN EffortByUuid(effs, parent_uuid_val)
    ELSE IF DOMAIN effs = {} THEN Null
    ELSE CHOOSE e \in DOMAIN effs : \A f \in DOMAIN effs : e <= f

\* the parent instance of a save: None without a parent_uuid, when no
\* effort has it, and when the lookup raises (caught and logged)
resolve_parent(effs, parent_uuid_val, fault) ==
    IF parent_uuid_val # Null /\ fault # "parent_lookup"
    THEN EffortByUuid(effs, parent_uuid_val)
    ELSE Null

\* the whole of save_efforts_for_program(id, new_effort_data) on a store
\* [efforts, profiles, nextPk], with a fault raised at `fault` (or none).
\* result: "no_data", "no_program", "created", "updated" or "raised".
save_efforts_for_program(db, rows, isM2M, id, new_effort_data, fault) ==
    LET program_instance == ProgramByProgramId(rows, id)
        done(d, res, inst, f) ==
            [efforts |-> d.efforts, profiles |-> d.profiles, nextPk |-> d.nextPk,
             result |-> res, target |-> inst, fault |-> f]
        failed(written, f) ==
            LET back == Rollback(db, written)
            IN  done([back EXCEPT !.nextPk = written.nextPk], "raised", Null, f)
    IN
    IF ~new_effort_data.present THEN done(db, "no_data", Null, NoFault)
    ELSE IF program_instance = Null THEN done(db, "no_program", Null, NoFault)
    ELSE
    LET \* 1. resolve the parent; an exception of the lookup (a malformed
        \* parent_uuid failing validation) is caught and logged, and the
        \* call goes on without a parent
        parent_uuid_val == new_effort_data.parent_uuid
        parent_instance == resolve_parent(db.efforts, parent_uuid_val, fault)
        \* 2. create or update
        effort_uuid == new_effort_data.uuid
        instance == IF effort_uuid # Null THEN EffortByUuid(db.efforts, effort_uuid) ELSE Null
        isUpdate == instance # Null
        old_local == IF isUpdate THEN db.efforts[instance].local
                     ELSE [a \in Aspects |-> Null]
        touches(a) ==
            IF isUpdate
            THEN UpdateTouches(old_local[a], new_effort_data.inherit[a], new_effort_data.data[a])
            ELSE CreateTouches(new_effort_data.inherit[a], new_effort_data.data[a])
        profileFault == fault \in Aspects /\ touches(fault)
        last == IF profileFault THEN AspectIndex(fault) - 1 ELSE Len(AspectOrder)
        pr == IF isUpdate
              THEN UpdateProfiles(db.profiles, old_local, new_effort_data, 1, last)
              ELSE CreateProfiles(db.profiles, old_local, new_effort_data, 1, last)
        afterProfiles == [db EXCEPT !.profiles = pr.profiles]
        pk == IF isUpdate THEN instance ELSE db.nextPk
        row == IF isUpdate
               THEN [db.efforts[instance] EXCEPT
                        !.name = new_effort_data.name,
                        !.program_catalog_info = program_instance,
                        !.inherit = new_effort_data.inherit,
                        !.parent = parent_instance,
                        !.local = pr.local]
               ELSE [uuid |-> created_uuid(db, effort_uuid),
                     name |-> new_effort_data.name,
                     program_catalog_info |-> program_instance,
                     parent |-> parent_instance,
                     inherit |-> new_effort_data.inherit,
                     local |-> pr.local,
                     linked |-> EmptyLinked(isM2M)]
        afterEffort ==
            [efforts |-> PutRow(db.efforts, pk, row),
             profiles |-> pr.profiles,
             nextPk |-> IF isUpdate THEN db.nextPk ELSE db.nextPk + 1]
        \* 3. linked efforts
        raw_links == new_effort_data.links
        afterLinks ==
            IF raw_links.given
            THEN [afterEffort EXCEPT
                    !.efforts = WriteLinks(afterEffort.efforts, pk, raw_links.items, isM2M)]
            ELSE afterEffort
    IN
    IF effort_uuid # Null /\ fault = "effort_lookup" THEN failed(db, fault)
    ELSE IF profileFault THEN failed(afterProfiles, fault)
    ELSE IF fault = "effort_write" THEN failed(afterProfiles, fault)
    ELSE IF raw_links.given /\ fault = "link_resolve" /\ LinkLookups(raw_links.items)
         THEN failed(afterEffort, fault)
    ELSE IF raw_links.given /\ fault = "link_write" THEN failed(afterEffort, fault)
    ELSE done(afterLinks, IF isUpdate THEN "updated" ELSE "created", pk,
              IF parent_uuid_val # Null /\ fault = "parent_lookup" THEN fault ELSE NoFault)

(***************************************************************************)
(* delete_effort_by_uuid.                                                  *)
(***************************************************************************)
\* a check that lets every identifier through
AnyIdentifierAccepted(u) == TRUE

\* uuid.UUID(effort_uuid) succeeds
IsWellFormedUuid(u) == u > Null

\* what the store does to the rows that point at a deleted effort: child
\* efforts lose their parent, many-to-many link rows go with the effort
on_delete_effort(effs, pk, isM2M) ==
    [e \in (DOMAIN effs) \ {pk} |->
        [effs[e] EXCEPT
            !.parent = IF @ = pk THEN Null ELSE @,
            !.linked = IF isM2M THEN @ \ {pk} ELSE @]]

\* the hard_delete() of each linked local profile, in the code's order
RECURSIVE DeleteLocalProfiles(_, _, _)
DeleteLocalProfiles(profs, local, order) ==
    IF order = <<>> THEN profs
    ELSE LET a == Head(order)
         IN  DeleteLocalProfiles(
                 IF local[a] # Null THEN hard_delete_profile(profs, a, local[a]) ELSE profs,
                 local, Tail(order))

\* a delete that forgets the work location
DeleteOrderWithoutLoc == <<SOW, DEV, TPOC>>

\* the order in which delete_effort_by_uuid visits the local profiles
DeleteOrder == <<SOW, DEV, TPOC, LOC>>

\* the whole of delete_effort_by_uuid(effort_uuid): the store and the
\* returned boolean
delete_effort_by_uuid(db, isM2M, effort_uuid) ==
    IF ~IsWellFormedUuid(effort_uuid)
    THEN [efforts |-> db.efforts, profiles |-> db.profiles, nextPk |-> db.nextPk,
          result |-> "invalid_uuid", ret |-> FALSE, target |-> Null]
    ELSE LET effort == EffortByUuid(db.efforts, effort_uuid)
         IN  IF effort = Null
             THEN [efforts |-> db.efforts, profiles |-> db.profiles, nextPk |-> db.nextPk,
                   result |-> "not_found", ret |-> FALSE, target |-> Null]
             ELSE [efforts |-> on_delete_effort(db.efforts, effort, isM2M),
                   profiles |-> DeleteLocalProfiles(db.profiles, db.efforts[effort].local,
                                                    DeleteOrder),
                   nextPk |-> db.nextPk,
                   result |-> "deleted", ret |-> TRUE, target |-> effort]

(***************************************************************************)
(* The program tree.  A program_path "1.2.3" is the sequence of its        *)
(* dot-separated segments <<1, 2, 3>>; the empty string is <<>>.           *)
(***************************************************************************)
\* len(path.split(".")): the empty string splits into one empty segment
Depth(path) == IF path = <<>> THEN 1 ELSE Len(path)

\* a parent path that keeps the first segment only
first_segment_only(path) ==
    IF Len(path) <= 1 THEN <<>> ELSE SubSeq(path, 1, 1)

\* get_parent_id_path: "" without a dot, else the path less its last segment
get_parent_id_path(path) ==
    IF Len(path) <= 1 THEN <<>> ELSE SubSeq(path, 1, Len(path) - 1)

\* the deepest path depth a record of the list has
MaxDepthOf(list) ==
    IF list = <<>> THEN 0
    ELSE CHOOSE d \in {Depth(list[i].program_path) : i \in 1..Len(list)} :
            \A i \in 1..Len(list) : Depth(list[i].program_path) <= d

\* the records of the list at depths d..maxd, by depth, list order kept
RECURSIVE ByDepthFrom(_, _, _)
ByDepthFrom(list, d, maxd) ==
    IF d > maxd THEN <<>>
    ELSE SelectSeq(list, LAMBDA p : Depth(p.program_path) = d)
            \o ByDepthFrom(list, d + 1, maxd)

\* a sort that leaves the list as fetched
unsorted(list) == list

\* program_data.sort(key=depth): a stable sort by segment count
sort_by_depth(list) == ByDepthFrom(list, 1, MaxDepthOf(list))

\* the count of leading records at the depth of the first record
RECURSIVE LeadingAtDepth(_, _)
LeadingAtDepth(list, depth) ==
    IF list = <<>> \/ Depth(Head(list).program_path) # depth THEN 0
    ELSE 1 + LeadingAtDepth(Tail(list), depth)

\* a root check that accepts any number of candidates
single_root_assumed(program_data) == 1

\* root_candidates_count of a depth-sorted, non-empty list
root_candidates_count(program_data) ==
    LeadingAtDepth(program_data, Depth(program_data[1].program_path))

\* map_to_dto plus the two flags set on every new node
NewNode(p_dict) ==
    [program_id |-> p_dict.program_id,
     program_path |-> p_dict.program_path,
     expecting_software_efforts |-> p_dict.expect_software_effort,
     has_descendant_expecting_software_effort |-> FALSE,
     children |-> <<>>]

\* id_path_to_node[path] = node
MapPut(map, path, node) ==
    [q \in (DOMAIN map) \cup {path} |-> IF q = path THEN node ELSE map[q]]

\* "Populate Tree": nodes is nodes_by_path, a node is its index in it,
\* map is id_path_to_node
RECURSIVE Populate(_, _, _)
Populate(processing_list, nodes, map) ==
    IF processing_list = <<>> THEN [nodes |-> nodes, map |-> map]
    ELSE LET p_dict == Head(processing_list)
             parent_path == get_parent_id_path(p_dict.program_path)
         IN  IF parent_path \notin DOMAIN map
             THEN \* orphan: skipped
                  Populate(Tail(processing_list), nodes, map)
             ELSE LET child == Len(nodes) + 1
                      parent == map[parent_path]
                  IN  Populate(Tail(processing_list),
                               Append([nodes EXCEPT ![parent].children = Append(@, child)],
                                      NewNode(p_dict)),
                               MapPut(map, p_dict.program_path, child))

\* nodes_by_path visited first to last
forward_order(n) == [i \in 1..n |-> i]

\* reversed(nodes_by_path): last inserted first
bubble_order(n) == [i \in 1..n |-> n + 1 - i]

\* "Bubble Up": visit the nodes in `order`, flagging the parent of each
\* node that expects software effort or is already flagged
RECURSIVE BubbleUp(_, _, _)
BubbleUp(nodes, map, order) ==
    IF order = <<>> THEN nodes
    ELSE LET node == nodes[Head(order)]
             is_relevant == \/ node.expecting_software_efforts
                            \/ node.has_descendant_expecting_software_effort
             parent_path == get_parent_id_path(node.program_path)
         IN  BubbleUp(
                 IF is_relevant /\ parent_path # <<>> /\ parent_path \in DOMAIN map
                 THEN [nodes EXCEPT
                         ![map[parent_path]].has_descendant_expecting_software_effort = TRUE]
                 ELSE nodes,
                 map, Tail(order))

\* get_all_programs_as_tree on its working copy of the fetched list:
\* kind "absent" (None), "error" (ValueError) or "tree" with the nodes in
\* insertion order, the root first; `left` is the working list afterwards
build_tree(fetched) ==
    IF fetched = <<>> THEN [kind |-> "absent", nodes |-> <<>>, left |-> fetched]
    ELSE LET program_data == sort_by_depth(fetched)
         IN  IF root_candidates_count(program_data) > 1
             THEN [kind |-> "error", nodes |-> <<>>, left |-> program_data]
             ELSE LET root_data == Head(program_data)
                      processing_list == Tail(program_data)
                      built == Populate(processing_list, <<NewNode(root_data)>>,
                                        MapPut(<<>>, root_data.program_path, 1))
                  IN  [kind |-> "tree",
                       nodes |-> BubbleUp(built.nodes, built.map,
                                          bubble_order(Len(built.nodes))),
                       left |-> processing_list]

(***************************************************************************)
(* The version resolver and the cached flat list of current programs.      *)
(***************************************************************************)
\* a grouping that skips the filter on program__active
latest_dates_of_all_programs(rows) ==
    {[program_id |-> id,
      latest_date |-> CHOOSE d \in {r.date : r \in {q \in rows : q.program_id = id}} :
                         \A r \in {q \in rows : q.program_id = id} : r.date <= d] :
        id \in {r.program_id : r \in rows}}

\* _get_latest_programs: per program_id of an active program, the max date
get_latest_programs(rows) ==
    LET act == {r \in rows : r.active}
    IN  {[program_id |-> id,
          latest_date |-> CHOOSE d \in {r.date : r \in {q \in act : q.program_id = id}} :
                             \A r \in {q \in act : q.program_id = id} : r.date <= d] :
            id \in {r.program_id : r \in act}}

\* .values(*fields): the dict the tree builder reads
RowDict(r) ==
    [program_id |-> r.program_id, program_path |-> r.program_path,
     date |-> r.date, expect_software_effort |-> r.expect_software_effort]

\* the rows as a list by ascending program_id, one row per program_id
RECURSIVE ByProgramId(_)
ByProgramId(rs) ==
    IF rs = {} THEN <<>>
    ELSE LET first == CHOOSE r \in rs : \A q \in rs : r.program_id <= q.program_id
         IN  <<RowDict(first)>> \o ByProgramId(rs \ {first})

\* a fetch that keeps the first stored row of each program_id
first_stored_program_dicts(rows) ==
    LET latest_dates == {g.latest_date : g \in get_latest_programs(rows)}
        hits == {r \in rows : r.active /\ r.date \in latest_dates}
        firstOf(id) ==
            CHOOSE r \in hits :
                /\ r.program_id = id
                /\ \A q \in hits : q.program_id = id => r.pk <= q.pk
    IN  ByProgramId({firstOf(id) : id \in {r.program_id : r \in hits}})

\* _get_all_program_dicts without the cache: the rows of active programs
\* dated at some latest date, ordered by program_id, -date, -id and cut to
\* the first row of each program_id
get_all_program_dicts(rows) ==
    LET latest_dates == {g.latest_date : g \in get_latest_programs(rows)}
        hits == {r \in rows : r.active /\ r.date \in latest_dates}
        firstOf(id) ==
            CHOOSE r \in hits :
                /\ r.program_id = id
                /\ \A q \in hits : q.program_id = id =>
                        \/ q.date < r.date
                        \/ q.date = r.date /\ q.pk <= r.pk
    IN  ByProgramId({firstOf(id) : id \in {r.program_id : r \in hits}})

\* TTLCache(maxsize=3000, ttl=60)
CacheTtl == 60

NoCache == [filled |-> FALSE, value |-> <<>>, at |-> 0]

\* an entry that is served however old it is
CacheNeverExpires == cache.filled

\* the entry is there and has not expired
CacheLive == cache.filled /\ now < cache.at + CacheTtl

\* the cache entry after a call of the @cached _get_all_program_dicts
CacheAfterFetch ==
    IF CacheLive THEN cache
    ELSE [filled |-> TRUE, value |-> get_all_program_dicts(programRows), at |-> now]

\* the cached list when the caller sorts and pops the very list object the
\* cache holds
cached_list_aliased(cached_list, working_list) == working_list

\* the cached list after a caller sorted and popped its working list:
\* list(...) made the working list a copy, the cached one is left alone
cached_list_after(cached_list, working_list) == cached_list

\* one call of get_all_programs_as_tree
GetAllProgramsAsTree ==
    LET entry == CacheAfterFetch
        built == build_tree(entry.value)
    IN  /\ cache' = [entry EXCEPT !.value = cached_list_after(entry.value, built.left)]
        /\ treeResult' = [kind |-> built.kind, nodes |-> built.nodes, at |-> entry.at]
        /\ outcome' = [op |-> "tree", result |-> built.kind, target |-> Null,
                       fault |-> NoFault, ret |-> FALSE, rows |-> 0]
        /\ UNCHANGED <<storeVars, programRows, now, flatResult, txns, effortsResult, programResult>>

\* _convert_program_catalog_info_to_dto of the model made from a dict:
\* the serialized fields, program_id taken from the program reference
convert_program_catalog_info_to_dto(d) ==
    [program_id |-> d.program_id, program_path |-> d.program_path,
     expect_software_effort |-> d.expect_software_effort]

\* one call of get_all_programs: the Program DTO of every cached dict
GetAllPrograms ==
    LET entry == CacheAfterFetch
    IN  /\ cache' = entry
        /\ flatResult' =
              [kind |-> "list",
               programs |-> [k \in 1..Len(entry.value) |->
                               convert_program_catalog_info_to_dto(entry.value[k])],
               at |-> entry.at]
        /\ outcome' = [op |-> "list", result |-> "list", target |-> Null,
                       fault |-> NoFault, ret |-> FALSE, rows |-> 0]
        /\ UNCHANGED <<storeVars, programRows, now, treeResult, txns, effortsResult, programResult>>

NoTreeResult == [kind |-> "none", nodes |-> <<>>, at |-> 0]

NoFlatResult == [kind |-> "none", programs |-> <<>>, at |-> 0]

\* a save transaction that has not begun
IdleTxn ==
    [pc |-> "idle", payload |-> NoPayload, instance |-> Null, row |-> <<>>]

\* the two callers saving side by side
Callers == {1, 2}

\* get_efforts_for_program(id): the program row whose date is among the
\* latest dates of the active programs (the first by storage key), and the
\* efforts attached to it; "absent" (None) when there is no such row
get_efforts_for_program(rows, effs, id) ==
    LET latest_dates == {g.latest_date : g \in get_latest_programs(rows)}
        hits == {r \in rows : r.program_id = id /\ r.date \in latest_dates}
    IN  IF hits = {}
        THEN [kind |-> "absent", id |-> id, program |-> Null, efforts |-> {}]
        ELSE LET program == CHOOSE r \in hits : \A q \in hits : r.pk <= q.pk
             IN  [kind |-> "list", id |-> id, program |-> program.pk,
                  efforts |-> {effs[e].uuid : e \in
                                 {x \in DOMAIN effs :
                                    effs[x].program_catalog_info = program.pk}}]

NoEffortsResult == [kind |-> "none", id |-> Null, program |-> Null, efforts |-> {}]

\* get_program_by_id(id): the Program of the first row, by storage key,
\* among the rows of an active program with that program_id whose date is
\* among the latest dates; without such a row the serializer is handed
\* None, and the call either returns nothing or raises
get_program_by_id(rows, id) ==
    LET latest_dates == {g.latest_date : g \in get_latest_programs(rows)}
        hits == {r \in rows : r.active /\ r.program_id = id /\ r.date \in latest_dates}
    IN  IF hits = {}
        THEN {[kind |-> k, id |-> id, program |-> Null, dto |-> <<>>] :
                 k \in {"absent", "raised"}}
        ELSE LET model == CHOOSE r \in hits : \A q \in hits : r.pk <= q.pk
             IN  {[kind |-> "program", id |-> id, program |-> model.pk,
                   dto |-> convert_program_catalog_info_to_dto(RowDict(model))]}

NoProgramResult == [kind |-> "none", id |-> Null, program |-> Null, dto |-> <<>>]

\* nothing read yet, no save transaction open
NothingRead ==
    /\ txns = [t \in Callers |-> IdleTxn]
    /\ effortsResult = NoEffortsResult
    /\ programResult = NoProgramResult
    /\ cache = NoCache
    /\ now = 0
    /\ treeResult = NoTreeResult
    /\ flatResult = NoFlatResult

(***************************************************************************)
(* The effort store as a state machine.                                    *)
(***************************************************************************)
Store == [efforts |-> efforts, profiles |-> profiles, nextPk |-> nextPk]

\* number of rows in the four profile tables
ProfileRowCount(profs) ==
    Cardinality({<<a, i>> \in Aspects \X (1..(2 * MaxEfforts + 2)) : i \in DOMAIN profs[a]})

\* op, result: the call and how it ended; target: the effort row it wrote
\* or deleted; fault: the fault raised in it; ret: the returned boolean;
\* rows: the net change in the number of profile rows
NoOutcome ==
    [op |-> "none", result |-> "none", target |-> Null, fault |-> NoFault, ret |-> FALSE,
     rows |-> 0]

\* one ProgramCatalogInfoModel row
ProgramRow(pk, program_id, date, active, path, expect) ==
    [pk |-> pk, program_id |-> program_id, date |-> date, active |-> active,
     program_path |-> path, expect_software_effort |-> expect]

\* the program table the effort operations run against: program 1, current
EffortProgramRows == {ProgramRow(1, 1, 1, TRUE, <<1>>, FALSE)}

EmptyStore ==
    /\ efforts = <<>>
    /\ profiles = [a \in Aspects |-> <<>>]
    /\ nextPk = 1
    /\ outcome = NoOutcome

\* uuids a caller can name: none, one no effort has, or one ever handed out
UuidArgs == {Null, UnknownUuid} \cup 1..(nextPk - 1)

\* one call of save_efforts_for_program, with at most `cap` efforts ever
\* created
SaveEffort(cap, id, payload, fault) ==
    LET r == save_efforts_for_program(Store, programRows, linkFieldIsM2M, id, payload, fault)
    IN  /\ nextPk <= cap \/ ~payload.present \/ EffortByUuid(efforts, payload.uuid) # Null
        /\ r.nextPk <= cap + 1
        /\ efforts' = r.efforts
        /\ profiles' = r.profiles
        /\ nextPk' = r.nextPk
        /\ outcome' = [op |-> "save", result |-> r.result, target |-> r.target,
                       fault |-> r.fault, ret |-> FALSE,
                       rows |-> ProfileRowCount(r.profiles) - ProfileRowCount(profiles)]
        /\ UNCHANGED <<programRows, linkFieldIsM2M, readVars, txns>>

\* one call of delete_effort_by_uuid
DeleteEffort(effort_uuid) ==
    LET r == delete_effort_by_uuid(Store, linkFieldIsM2M, effort_uuid)
    IN  /\ efforts' = r.efforts
        /\ profiles' = r.profiles
        /\ nextPk' = r.nextPk
        /\ outcome' = [op |-> "delete", result |-> r.result, target |-> r.target,
                       fault |-> NoFault, ret |-> r.ret,
                       rows |-> ProfileRowCount(r.profiles) - ProfileRowCount(profiles)]
        /\ UNCHANGED <<programRows, linkFieldIsM2M, readVars, txns>>

\* per-aspect payload settings: (inherit flag, data or Null)
Settings == BOOLEAN \X ({Null} \cup DataValues)

\* a payload giving aspect `a` the setting s and inheriting the others
FocusPayload(u, a, s) ==
    Payload(u, "effort", Null,
            [x \in Aspects |-> IF x = a THEN s[1] ELSE TRUE],
            [x \in Aspects |-> IF x = a THEN s[2] ELSE Null],
            NoLinks)

\* a payload giving all four aspects the setting s
UniformPayload(u, pu, s, lk) ==
    Payload(u, "effort", pu, [x \in Aspects |-> s[1]], [x \in Aspects |-> s[2]], lk)

\* payloads of the effort store specification: all four aspects alike, or
\* a local developer setup alone
ProfilePayloads ==
    {UniformPayload(u, Null, s, NoLinks) : u \in UuidArgs, s \in Settings}
        \cup {FocusPayload(u, DEV, <<FALSE, 1>>) : u \in UuidArgs}


Init ==
    /\ EmptyStore
    /\ NothingRead
    /\ programRows = EffortProgramRows
    /\ linkFieldIsM2M = TRUE

SaveStep == \E p \in ProfilePayloads : SaveEffort(MaxEfforts, 1, p, NoFault)

DeleteStep == \E u \in 1..(nextPk - 1) : DeleteEffort(u)

Next == SaveStep \/ DeleteStep

Spec == Init /\ [][Next]_vars

(***************************************************************************)
(* Claims about the effort store.                                          *)
(***************************************************************************)
\* the efforts whose local_<a> reference is profile row id
Owners(a, id) == {e \in DOMAIN efforts : efforts[e].local[a] = id}

\* C1: after any sequence of save_efforts_for_program and
\* delete_effort_by_uuid calls, every profile row is referenced through
\* local_X by exactly one existing effort: none is orphaned, none is shared.
C1_ProfileOwnedByExactlyOneEffort ==
    \A a \in Aspects : \A id \in DOMAIN profiles[a] : Cardinality(Owners(a, id)) = 1

\* two efforts, each holding its own row in each of the four profile
\* tables, right after one of them was updated
C1_Witness ==
    /\ outcome.op = "save" /\ outcome.result = "updated"
    /\ Cardinality(DOMAIN efforts) = 2
    /\ \A e \in DOMAIN efforts, a \in Aspects : efforts[e].local[a] # Null
    /\ \A a \in Aspects : Cardinality(DOMAIN profiles[a]) = 2

\* C2: for every stored effort and each aspect X, inherit_X = true implies
\* that the local_X reference is null.
C2_InheritImpliesNoLocal ==
    \A e \in DOMAIN efforts, a \in Aspects :
        efforts[e].inherit[a] => efforts[e].local[a] = Null

\* an update that removed profile rows left its effort inheriting, while
\* another effort still holds local profiles
C2_Witness ==
    /\ outcome.op = "save" /\ outcome.result = "updated" /\ outcome.rows < 0
    /\ \E a \in Aspects : efforts[outcome.target].inherit[a]
    /\ \E e \in DOMAIN efforts : \A a \in Aspects : efforts[e].local[a] # Null

\* the payloads naming uuid u with inherit_<a> false and data for a
LocalDataPayloads(u, a) ==
    {UniformPayload(u, Null, <<FALSE, d>>, NoLinks) : d \in DataValues}
        \cup {FocusPayload(u, a, <<FALSE, d>>) : d \in DataValues}

\* the store after one more save_efforts_for_program(1, p) on store db
SaveAgain(db, p) ==
    LET r == save_efforts_for_program(db, programRows, linkFieldIsM2M, 1, p, NoFault)
    IN  [efforts |-> r.efforts, profiles |-> r.profiles, nextPk |-> r.nextPk]

\* C3 as stated: saving twice with the same payload uuid, inherit_X false
\* and data for X, the second call adds no profile row for X.
C3_TwiceSameUuidOneRow ==
    \A a \in Aspects, u \in UuidArgs \ {Null} : \A p \in LocalDataPayloads(u, a) :
        LET first == SaveAgain(Store, p)
            second == SaveAgain(first, p)
        IN  Cardinality(DOMAIN second.profiles[a]) = Cardinality(DOMAIN first.profiles[a])

\* C3 amended: when the payload uuid is that of a stored effort, saving
\* twice with inherit_X false and data for X leaves the effort with one X
\* row: the second call keeps the reference the first call left, adds no X
\* row and stores the payload's data in that row.
C3_TwiceExistingUuidOneRow ==
    \A e \in DOMAIN efforts, a \in Aspects : \A p \in LocalDataPayloads(efforts[e].uuid, a) :
        LET first == SaveAgain(Store, p)
            second == SaveAgain(first, p)
            row == first.efforts[e].local[a]
        IN  /\ row # Null
            /\ second.efforts[e].local[a] = row
            /\ DOMAIN second.profiles[a] = DOMAIN first.profiles[a]
            /\ second.profiles[a][row] = p.data[a]
            /\ {x \in DOMAIN second.efforts : second.efforts[x].local[a] = row} = {e}

\* an effort was just updated and holds a local developer setup holding
\* contents 1, while a second save with contents 2 will meet that row
C3_Witness ==
    /\ outcome.op = "save" /\ outcome.result = "updated" /\ outcome.rows = 0
    /\ ~efforts[outcome.target].inherit[DEV]
    /\ efforts[outcome.target].local[DEV] # Null
    /\ profiles[DEV][efforts[outcome.target].local[DEV]] = 2

\* C4: save_efforts_for_program with inherit_X = true on an existing effort
\* that has a local profile for X hard-deletes that row and leaves the
\* effort's local_X null.
C4_InheritSaveDeletesProfile ==
    [][\A e \in DOMAIN efforts, a \in Aspects :
          (/\ outcome'.op = "save" /\ outcome'.result = "updated" /\ outcome'.target = e
           /\ efforts[e].local[a] # Null
           /\ efforts'[e].inherit[a])
          => (/\ efforts'[e].local[a] = Null
              /\ DOMAIN profiles'[a] = (DOMAIN profiles[a]) \ {efforts[e].local[a]})]_vars

\* an update took all four local profiles of an effort away
C4_Witness ==
    /\ outcome.op = "save" /\ outcome.result = "updated" /\ outcome.rows = 0 - 4
    /\ \A a \in Aspects : efforts[outcome.target].inherit[a]
    /\ \A a \in Aspects : efforts[outcome.target].local[a] = Null

\* C11: delete_effort_by_uuid with the uuid of a stored effort returns
\* true, and afterwards neither the effort row nor any profile row it
\* referenced through local_X is left
C11_DeleteRemovesEffortAndProfiles ==
    \A e \in DOMAIN efforts :
        LET r == delete_effort_by_uuid(Store, linkFieldIsM2M, efforts[e].uuid)
        IN  /\ r.ret
            /\ e \notin DOMAIN r.efforts
            /\ EffortByUuid(r.efforts, efforts[e].uuid) = Null
            /\ \A a \in Aspects :
                   efforts[e].local[a] # Null =>
                       efforts[e].local[a] \notin DOMAIN r.profiles[a]

\* a delete took an effort and its four profiles away and left another
\* effort with its own four profiles
C11_Witness ==
    /\ outcome.op = "delete" /\ outcome.result = "deleted" /\ outcome.ret
    /\ outcome.rows = 0 - 4
    /\ outcome.target \notin DOMAIN efforts
    /\ \E e \in DOMAIN efforts : \A a \in Aspects : efforts[e].local[a] # Null

(***************************************************************************)
(* The tree builder on every small program table: each program has one     *)
(* row, a path of the pool and either value of expect_software_effort.     *)
(***************************************************************************)
MaxPrograms == 3    \* program rows in the table

PathPool == {<<>>, <<1>>, <<2>>, <<1, 1>>, <<1, 2>>, <<1, 1, 1>>}

ProgramTables ==
    UNION {{ {ProgramRow(i, i, 1, TRUE, f[i][1], f[i][2]) : i \in 1..n} :
                f \in [1..n -> PathPool \X BOOLEAN]} : n \in 0..MaxPrograms}

TreeInit ==
    /\ EmptyStore
    /\ NothingRead
    /\ programRows \in ProgramTables
    /\ linkFieldIsM2M = TRUE

TreeNext == GetAllProgramsAsTree \/ GetAllPrograms

TreeSpec == TreeInit /\ [][TreeNext]_vars

\* the current program records: per program_id the active row of the
\* highest date, the highest storage key among equal dates
CurrentRecords ==
    {r \in programRows :
        /\ r.active
        /\ \A q \in programRows :
             (q.active /\ q.program_id = r.program_id) =>
                (q.date < r.date \/ (q.date = r.date /\ q.pk <= r.pk))}

\* the current records at the least path depth
MinDepthRecords ==
    {r \in CurrentRecords :
        \A q \in CurrentRecords : Depth(r.program_path) <= Depth(q.program_path)}

\* the nodes below node i of a returned tree, by its children lists
RECURSIVE ProperDescendants(_, _)
ProperDescendants(nodes, i) ==
    LET kids == {nodes[i].children[k] : k \in 1..Len(nodes[i].children)}
    IN  kids \cup UNION {ProperDescendants(nodes, c) : c \in kids}

\* C5: in a returned tree a node carries
\* has_descendant_expecting_software_effort exactly when some node properly
\* below it expects software effort; its own expectation does not count
C5_HasDescendantIffProperDescendantExpects ==
    treeResult.kind = "tree" =>
        \A i \in 1..Len(treeResult.nodes) :
            treeResult.nodes[i].has_descendant_expecting_software_effort
                <=> \E j \in ProperDescendants(treeResult.nodes, i) :
                        treeResult.nodes[j].expecting_software_efforts

\* a tree where a flag comes from a grandchild only and where an expecting
\* leaf stays unflagged
C5_Witness ==
    /\ treeResult.kind = "tree"
    /\ \E i \in 1..Len(treeResult.nodes) :
         /\ treeResult.nodes[i].has_descendant_expecting_software_effort
         /\ \A k \in 1..Len(treeResult.nodes[i].children) :
               ~treeResult.nodes[treeResult.nodes[i].children[k]].expecting_software_efforts
    /\ \E i \in 1..Len(treeResult.nodes) :
         /\ treeResult.nodes[i].expecting_software_efforts
         /\ ~treeResult.nodes[i].has_descendant_expecting_software_effort

\* C6: with two or more current records at the least depth the call raises
\* and hands back no node at all
C6_SeveralRootsRaise ==
    (treeResult.kind # "none" /\ Cardinality(MinDepthRecords) >= 2) =>
        (treeResult.kind = "error" /\ treeResult.nodes = <<>>)

\* a call that raised on three records, two of them at the least depth
C6_Witness ==
    /\ treeResult.kind = "error"
    /\ Cardinality(CurrentRecords) = 3
    /\ Cardinality(MinDepthRecords) = 2

\* the paths of the records that find their way into the tree, depth by depth
RECURSIVE InsertedPaths(_, _, _)
InsertedPaths(records, root, d) ==
    IF d <= Depth(root.program_path) THEN {root.program_path}
    ELSE LET above == InsertedPaths(records, root, d - 1)
         IN  above \cup {r.program_path : r \in
                {q \in records : /\ Depth(q.program_path) = d
                                 /\ get_parent_id_path(q.program_path) \in above}}

\* the records skipped because their parent path names no inserted node
Orphans(records, root) ==
    {r \in records \ {root} :
        get_parent_id_path(r.program_path)
            \notin InsertedPaths(records, root, MaxPrograms + 1)}

\* C7: with one current record at the least depth the call returns a tree
\* rooted at that record, with one node per record that is not an orphan
C7_RootAndNodeCount ==
    (treeResult.kind # "none" /\ Cardinality(MinDepthRecords) = 1) =>
        LET root == CHOOSE r \in MinDepthRecords : TRUE
        IN  /\ treeResult.kind = "tree"
            /\ treeResult.nodes[1].program_id = root.program_id
            /\ treeResult.nodes[1].program_path = root.program_path
            /\ Len(treeResult.nodes)
                 = Cardinality(CurrentRecords)
                     - Cardinality(Orphans(CurrentRecords, root))

\* a tree of two nodes with one orphan left out, whose root was not the
\* first record fetched
C7_Witness ==
    /\ treeResult.kind = "tree"
    /\ Cardinality(MinDepthRecords) = 1
    /\ Len(treeResult.nodes) = 2
    /\ Cardinality(Orphans(CurrentRecords, CHOOSE r \in MinDepthRecords : TRUE)) = 1
    /\ treeResult.nodes[1].program_id # 1

(***************************************************************************)
(* The read cache over time: readers call while the clock advances and the *)
(* ingestion process supersedes program rows.                              *)
(***************************************************************************)
MaxClock == 150     \* the clock stops here

MaxRows == 4        \* program rows after ingestion

TickSeconds == CacheTtl \div 2

\* time passes
Tick ==
    /\ now + TickSeconds <= MaxClock
    /\ now' = now + TickSeconds
    /\ outcome' = [NoOutcome EXCEPT !.op = "tick"]
    /\ UNCHANGED <<storeVars, programRows, cache, treeResult, flatResult, txns, effortsResult, programResult>>

\* the ingestion process inserts a later version of a program
Ingest ==
    /\ Cardinality(programRows) < MaxRows
    /\ \E id \in {r.program_id : r \in programRows},
          path \in {<<1>>, <<1, 1>>}, expect \in BOOLEAN :
          programRows' = programRows \cup
              {ProgramRow(Cardinality(programRows) + 1, id,
                          Cardinality(programRows) + 1, TRUE, path, expect)}
    /\ outcome' = [NoOutcome EXCEPT !.op = "ingest"]
    /\ UNCHANGED <<storeVars, now, cache, treeResult, flatResult, txns, effortsResult, programResult>>

\* three programs, the root not the first one fetched
CachedTable ==
    {ProgramRow(1, 1, 1, TRUE, <<1, 1>>, TRUE),
     ProgramRow(2, 2, 1, TRUE, <<1>>, FALSE),
     ProgramRow(3, 3, 1, TRUE, <<1, 2>>, FALSE)}

CacheInit ==
    /\ EmptyStore
    /\ NothingRead
    /\ programRows = CachedTable
    /\ linkFieldIsM2M = TRUE

CacheNext == GetAllProgramsAsTree \/ GetAllPrograms \/ Tick \/ Ingest

CacheSpec == CacheInit /\ [][CacheNext]_vars

\* C8: a reader that hits the live cache entry leaves the cached list as it
\* was, a tree call returns the tree of the earlier tree call on that entry,
\* a list call the list of the earlier list call, and the root of the
\* earlier tree is still among the programs listed
C8_ReadersLeaveCachedListAlone ==
    [][(CacheLive /\ outcome'.op \in {"tree", "list"}) =>
          /\ cache' = cache
          /\ (outcome'.op = "tree" /\ treeResult.kind # "none"
                /\ treeResult.at = cache.at) => treeResult' = treeResult
          /\ (outcome'.op = "list" /\ flatResult.kind # "none"
                /\ flatResult.at = cache.at) => flatResult' = flatResult
          /\ (outcome'.op = "list" /\ treeResult.kind = "tree"
                /\ treeResult.at = cache.at) =>
                \E k \in 1..Len(flatResult'.programs) :
                    /\ flatResult'.programs[k].program_id
                         = treeResult.nodes[1].program_id
                    /\ flatResult'.programs[k].program_path
                         = treeResult.nodes[1].program_path]_vars

\* a list call served from the entry that an earlier tree call sorted and
\* popped a copy of, later in the entry's life, listing every program
C8_Witness ==
    /\ outcome.op = "list"
    /\ treeResult.kind = "tree"
    /\ treeResult.at = cache.at
    /\ flatResult.at = cache.at
    /\ CacheLive
    /\ now > cache.at
    /\ Len(flatResult.programs) = Len(treeResult.nodes)
    /\ flatResult.programs[1].program_id # treeResult.nodes[1].program_id

(***************************************************************************)
(* Saves with a fault raised at some point of the transaction.             *)
(***************************************************************************)
MaxFaultEfforts == 1    \* efforts ever created under faults

\* payloads with a parent and linked efforts, all four aspects alike:
\* local with either data value, or inherited
FaultPayloads ==
    {UniformPayload(u, pu, s, lk) :
        u \in {Null} \cup 1..(nextPk - 1), pu \in {Null, 1},
        s \in {<<FALSE, d>> : d \in DataValues} \cup {<<TRUE, Null>>},
        lk \in {NoLinks, Links(<<PlainItem(UuidIdent(1))>>)}}

FaultySaveStep ==
    \E p \in FaultPayloads, f \in FaultPoints \cup {NoFault} :
        SaveEffort(MaxFaultEfforts, 1, p, f)

FaultNext == FaultySaveStep \/ DeleteStep

FaultSpec == Init /\ [][FaultNext]_vars

ConcStore ==
    LET r == save_efforts_for_program(
                 [efforts |-> <<>>, profiles |-> [a \in Aspects |-> <<>>], nextPk |-> 1],
                 EffortProgramRows, TRUE, 1,
                 UniformPayload(Null, Null, <<TRUE, Null>>, NoLinks), NoFault)
    IN  [efforts |-> r.efforts, profiles |-> r.profiles, nextPk |-> r.nextPk]

\* the uuid both calls name
SharedUuid == ConcStore.efforts[1].uuid

ConcPayloads ==
    {FocusPayload(SharedUuid, a, <<FALSE, d>>) : a \in {SOW, DEV}, d \in DataValues}

ConcInit ==
    /\ efforts = ConcStore.efforts
    /\ profiles = ConcStore.profiles
    /\ nextPk = ConcStore.nextPk
    /\ outcome = NoOutcome
    /\ NothingRead
    /\ programRows = EffortProgramRows
    /\ linkFieldIsM2M = TRUE

\* lines 234-240: the call enters the transaction and reads its effort row
TxnLookup(t, payload) ==
    /\ txns[t].pc = "idle"
    /\ EffortByUuid(efforts, payload.uuid) # Null
    /\ txns' = [txns EXCEPT ![t] =
                  [pc |-> "looked", payload |-> payload,
                   instance |-> EffortByUuid(efforts, payload.uuid),
                   row |-> efforts[EffortByUuid(efforts, payload.uuid)]]]
    /\ UNCHANGED <<storeVars, programRows, outcome, readVars>>

\* lines 286-333: the fields of the in-memory instance are set and the
\* four manage_local_profile calls run on the local_X values it was read
\* with
TxnProfiles(t) ==
    /\ txns[t].pc = "looked"
    /\ LET new_effort_data == txns[t].payload
           pr == UpdateProfiles(profiles, txns[t].row.local, new_effort_data,
                                1, Len(AspectOrder))
       IN  /\ profiles' = pr.profiles
           /\ txns' = [txns EXCEPT
                         ![t].pc = "profiled",
                         ![t].row = [@ EXCEPT
                                       !.name = new_effort_data.name,
                                       !.program_catalog_info =
                                           ProgramByProgramId(programRows, 1),
                                       !.inherit = new_effort_data.inherit,
                                       !.parent = Null,
                                       !.local = pr.local]]
    /\ UNCHANGED <<efforts, nextPk, linkFieldIsM2M, programRows, outcome, readVars>>

\* line 335: instance.save() writes every field of the effort row, once no
\* other open transaction holds a write on that row
TxnWriteEffort(t) ==
    /\ txns[t].pc = "profiled"
    /\ \A o \in Callers \ {t} :
          ~(txns[o].pc = "written" /\ txns[o].instance = txns[t].instance)
    /\ txns' = [txns EXCEPT ![t].pc = "written"]
    /\ UNCHANGED <<storeVars, programRows, outcome, readVars>>

\* the atomic block ends: the written effort row becomes the committed one
TxnCommit(t) ==
    /\ txns[t].pc = "written"
    /\ efforts' = PutRow(efforts, txns[t].instance, txns[t].row)
    /\ txns' = [txns EXCEPT ![t].pc = "done"]
    /\ outcome' = [NoOutcome EXCEPT !.op = "save", !.result = "updated",
                                    !.target = txns[t].instance]
    /\ UNCHANGED <<profiles, nextPk, linkFieldIsM2M, programRows, readVars>>

ConcNext ==
    \E t \in Callers :
        \/ \E p \in ConcPayloads : TxnLookup(t, p)
        \/ TxnProfiles(t)
        \/ TxnWriteEffort(t)
        \/ TxnCommit(t)

ConcSpec == ConcInit /\ [][ConcNext]_vars

\* what a caller can tell of a store: per effort its fields with the
\* contents of its local profiles, and the number of rows per profile table
StoreView(effs, profs) ==
    [rows |-> [e \in DOMAIN effs |->
                 [name |-> effs[e].name,
                  inherit |-> effs[e].inherit,
                  parent |-> effs[e].parent,
                  local |-> [a \in Aspects |->
                               IF effs[e].local[a] = Null THEN Null
                               ELSE IF effs[e].local[a] \in DOMAIN profs[a]
                               THEN profs[a][effs[e].local[a]]
                               ELSE Null - 1]]],
     count |-> [a \in Aspects |-> Cardinality(DOMAIN profs[a])]]

\* the store after the call with payload p, then the call with payload q
SerialView(p, q) ==
    LET first == save_efforts_for_program(ConcStore, EffortProgramRows, TRUE, 1, p, NoFault)
        second == save_efforts_for_program(
                      [efforts |-> first.efforts, profiles |-> first.profiles,
                       nextPk |-> first.nextPk],
                      EffortProgramRows, TRUE, 1, q, NoFault)
    IN  StoreView(second.efforts, second.profiles)

\* C10: once both calls are through, the store is what the two calls leave
\* when one runs after the other, in one of the two orders
C10_ConcurrentSavesSerializable ==
    (\A t \in Callers : txns[t].pc = "done") =>
        StoreView(efforts, profiles)
            \in {SerialView(txns[1].payload, txns[2].payload),
                 SerialView(txns[2].payload, txns[1].payload)}

(***************************************************************************)
(* The calls on every kind of argument: a program id no row has, an absent *)
(* payload, a payload uuid or parent uuid no effort has, an identifier     *)
(* that is no uuid.                                                        *)
(***************************************************************************)
MaxCallEfforts == 2     \* efforts ever created in this specification

\* a program_id no ProgramCatalogInfoModel row has
MissingProgramId == Cardinality(EffortProgramRows) + 1

\* the uuids a payload names for the effort: one no effort has, or that of
\* a stored effort
CallUuidArgs == {UnknownUuid} \cup {efforts[e].uuid : e \in DOMAIN efforts}

\* the uuids a payload names for its parent: none, one no effort has, or
\* the first uuid handed out
ParentArgs == {Null, UnknownUuid, 1}

\* per aspect: local with data, local without data, inherited
CallSettings == {<<FALSE, 1>>, <<FALSE, Null>>, <<TRUE, Null>>}

CallPayloads ==
    {UniformPayload(u, pu, s, NoLinks) : u \in CallUuidArgs, pu \in ParentArgs, s \in CallSettings}

\* the payloads sent along with a program id no row has
MissingProgramPayloads ==
    {UniformPayload(u, Null, <<FALSE, 1>>, NoLinks) : u \in CallUuidArgs}

\* the identifiers handed to delete_effort_by_uuid
DeleteArgs == {MalformedUuid, UnknownUuid} \cup {efforts[e].uuid : e \in DOMAIN efforts}

CallSaveStep ==
    \/ \E p \in CallPayloads : SaveEffort(MaxCallEfforts, 1, p, NoFault)
    \/ \E p \in MissingProgramPayloads : SaveEffort(MaxCallEfforts, MissingProgramId, p, NoFault)
    \/ SaveEffort(MaxCallEfforts, 1, NoPayload, NoFault)

CallDeleteStep == \E u \in DeleteArgs : DeleteEffort(u)

CallNext == CallSaveStep \/ CallDeleteStep

CallSpec == Init /\ [][CallNext]_vars

\* C12: delete_effort_by_uuid with an identifier that is no uuid, or with a
\* uuid no effort has, returns false and leaves efforts and profiles as
\* they were; an identifier that is no uuid is turned down before any lookup
C12_DeleteOfNothingChangesNothing ==
    [][\A u \in DeleteArgs :
          (DeleteEffort(u) /\ (~IsWellFormedUuid(u) \/ EffortByUuid(efforts, u) = Null)) =>
              /\ ~outcome'.ret
              /\ efforts' = efforts
              /\ profiles' = profiles
              /\ outcome'.result = IF u = MalformedUuid THEN "invalid_uuid" ELSE "not_found"]_vars

\* a delete was turned down for its identifier while efforts and profiles
\* were stored
C12_Witness ==
    /\ outcome.op = "delete" /\ outcome.result = "invalid_uuid" /\ ~outcome.ret
    /\ Cardinality(DOMAIN efforts) = 2
    /\ \E e \in DOMAIN efforts : \A a \in Aspects : efforts[e].local[a] # Null

\* the save is one the specification takes: an update, or a create while
\* fewer than `cap` efforts were ever created
CanSave(cap, p) == nextPk <= cap \/ EffortByUuid(efforts, p.uuid) # Null

\* save_efforts_for_program(1, p) on the store as it is
SaveNow(p) == save_efforts_for_program(Store, programRows, linkFieldIsM2M, 1, p, NoFault)

\* C13: a save whose payload uuid is that of a stored effort updates that
\* row in place: the same rows are stored; any other save adds exactly one
\* row, whose uuid is not the one the payload named; either way every
\* effort stored before keeps its uuid
C13_UpdateInPlaceElseCreateOne ==
    \A p \in {q \in CallPayloads : CanSave(MaxCallEfforts, q)} :
        LET r == SaveNow(p)
            instance == EffortByUuid(efforts, p.uuid)
        IN  /\ \A e \in DOMAIN efforts :
                  e \in DOMAIN r.efforts /\ r.efforts[e].uuid = efforts[e].uuid
            /\ IF instance # Null
               THEN /\ r.result = "updated"
                    /\ r.target = instance
                    /\ DOMAIN r.efforts = DOMAIN efforts
               ELSE /\ r.result = "created"
                    /\ (DOMAIN r.efforts) \ (DOMAIN efforts) = {r.target}
                    /\ r.efforts[r.target].uuid # p.uuid
                    /\ \A e \in DOMAIN efforts :
                          efforts[e].uuid # r.efforts[r.target].uuid

\* a save naming a uuid no effort has created a second effort, under a
\* uuid of its own
C13_Witness ==
    /\ outcome.op = "save" /\ outcome.result = "created"
    /\ Cardinality(DOMAIN efforts) = 2
    /\ \A e \in DOMAIN efforts : efforts[e].uuid # UnknownUuid
    /\ \E e \in DOMAIN efforts : efforts[e].uuid # efforts[outcome.target].uuid

\* C14: a save for a program_id no row has, and a save without a payload,
\* leave every effort (its links included) and every profile as they were
C14_NoProgramOrNoPayloadChangesNothing ==
    /\ \A p \in MissingProgramPayloads \cup CallPayloads :
          LET r == save_efforts_for_program(Store, programRows, linkFieldIsM2M,
                                            MissingProgramId, p, NoFault)
          IN  /\ r.result = "no_program"
              /\ r.efforts = efforts
              /\ r.profiles = profiles
    /\ \A id \in {1, MissingProgramId} :
          LET r == save_efforts_for_program(Store, programRows, linkFieldIsM2M,
                                            id, NoPayload, NoFault)
          IN  /\ r.result = "no_data"
              /\ r.efforts = efforts
              /\ r.profiles = profiles

\* a save was turned down for its program_id while two efforts, one with
\* local profiles, were stored
C14_Witness ==
    /\ outcome.op = "save" /\ outcome.result = "no_program"
    /\ Cardinality(DOMAIN efforts) = 2
    /\ \E e \in DOMAIN efforts : \A a \in Aspects : efforts[e].local[a] # Null

\* the dicts of the current program records
CurrentDicts == {RowDict(r) : r \in CurrentRecords}

\* C15: a tree read is served from the one cached snapshot of the flat
\* list, taken less than the ttl of 60 s ago; a read that finds the entry
\* expired (or none) takes a new snapshot, which holds exactly the current
\* records, every write before the read included
C15_TreeReadsAtMostTtlStale ==
    [][outcome'.op = "tree" =>
          /\ cache'.filled
          /\ treeResult'.at = cache'.at
          /\ now - treeResult'.at < CacheTtl
          /\ CacheLive => cache'.at = cache.at
          /\ ~CacheLive =>
                /\ cache'.at = now
                /\ {cache'.value[k] : k \in 1..Len(cache'.value)} = CurrentDicts
                /\ Len(cache'.value) = Cardinality(CurrentDicts)]_vars

\* a tree read after the entry expired took a new snapshot, in which the
\* version ingested since the first snapshot shows
C15_Witness ==
    /\ outcome.op = "tree"
    /\ treeResult.at = now
    /\ now >= CacheTtl
    /\ Cardinality(programRows) > Cardinality(CachedTable)
    /\ {cache.value[k] : k \in 1..Len(cache.value)} = CurrentDicts
    /\ \E d \in CurrentDicts : d.date > 1

(***************************************************************************)
(* Efforts over a versioned program table: programs with several dated     *)
(* rows, active or not (the active flag is the program's, shared by its    *)
(* rows), and the reads that resolve a program_id to one of the rows.      *)
(***************************************************************************)
MaxVersionRows == 3     \* program rows in the versioned table

MaxVersionEfforts == 1  \* efforts ever created over the versioned table

VersionProgramIds == {1, 2}

VersionDates == {1, 2}

\* a program_id no row of a versioned table has
UnusedProgramId == Cardinality(VersionProgramIds) + 1

\* every row carries its own program_path, so that a returned record tells
\* which row it was read from
VersionedTables ==
    UNION {{ {ProgramRow(k, f[k][1], f[k][2], act[f[k][1]], <<f[k][1], k>>, FALSE) : k \in 1..n} :
                f \in [1..n -> VersionProgramIds \X VersionDates],
                act \in [VersionProgramIds -> BOOLEAN]} : n \in 0..MaxVersionRows}

VersionInit ==
    /\ EmptyStore
    /\ NothingRead
    /\ programRows \in VersionedTables
    /\ linkFieldIsM2M = TRUE

\* one call of get_efforts_for_program
GetEffortsForProgram(id) ==
    /\ effortsResult' = get_efforts_for_program(programRows, efforts, id)
    /\ outcome' = [NoOutcome EXCEPT !.op = "efforts", !.result = effortsResult'.kind]
    /\ UNCHANGED <<storeVars, programRows, cache, now, treeResult, flatResult, txns,
                   programResult>>

VersionSaveStep ==
    \E id \in VersionProgramIds,
       u \in {Null} \cup {efforts[e].uuid : e \in DOMAIN efforts} :
        SaveEffort(MaxVersionEfforts, id,
                   UniformPayload(u, Null, <<TRUE, Null>>, NoLinks), NoFault)

GetEffortsStep ==
    \E id \in VersionProgramIds \cup {UnusedProgramId} : GetEffortsForProgram(id)

VersionNext == VersionSaveStep \/ GetEffortsStep \/ DeleteStep

VersionSpec == VersionInit /\ [][VersionNext]_vars

\* the current rows of program_id id
CurrentRowsOf(id) == {r \in CurrentRecords : r.program_id = id}

\* C16: get_efforts_for_program returns None exactly when the program_id
\* has no current row, and else the efforts attached to the row it resolved
C16_AbsentIffNoCurrentRow ==
    outcome.op = "efforts" =>
        /\ effortsResult.kind = "absent" <=> CurrentRowsOf(effortsResult.id) = {}
        /\ effortsResult.kind = "list" =>
              effortsResult.efforts =
                  {efforts[e].uuid : e \in
                     {x \in DOMAIN efforts :
                        efforts[x].program_catalog_info = effortsResult.program}}

\* a path with its last dot-segment removed
WithoutLastSegment(path) == SubSeq(path, 1, Len(path) - 1)

\* path p is a proper prefix of path q
IsProperPrefix(p, q) == Len(p) < Len(q) /\ SubSeq(q, 1, Len(p)) = p

\* the positions (parent, k) at which node j is listed as a child
ChildSlots(nodes, j) ==
    {<<i, k>> \in (1..Len(nodes)) \X (1..Len(nodes)) :
        k <= Len(nodes[i].children) /\ nodes[i].children[k] = j}

\* C17: in a returned tree every node but the root is listed once, as a
\* child of the node whose path is its own path less the last segment; the
\* root is no one's child; a record whose parent path names no inserted
\* node is left out, and so is every record below it
C17_ChildrenUnderParentPathOrphansOut ==
    (treeResult.kind = "tree" /\ Cardinality(MinDepthRecords) = 1) =>
        LET nodes == treeResult.nodes
            root == CHOOSE r \in MinDepthRecords : TRUE
            orphans == Orphans(CurrentRecords, root)
            ids == {nodes[j].program_id : j \in 1..Len(nodes)}
        IN  /\ ChildSlots(nodes, 1) = {}
            /\ \A j \in 2..Len(nodes) :
                  /\ Cardinality(ChildSlots(nodes, j)) = 1
                  /\ \A slot \in ChildSlots(nodes, j) :
                        nodes[slot[1]].program_path
                            = WithoutLastSegment(nodes[j].program_path)
            /\ \A x \in orphans :
                  /\ x.program_id \notin ids
                  /\ \A q \in CurrentRecords :
                        IsProperPrefix(x.program_path, q.program_path) =>
                            q.program_id \notin ids

\* a tree of the root alone: one record was an orphan and the third record,
\* below the orphan, was left out with it
C17_Witness ==
    /\ treeResult.kind = "tree"
    /\ Cardinality(MinDepthRecords) = 1
    /\ Len(treeResult.nodes) = 1
    /\ \E x \in Orphans(CurrentRecords, CHOOSE r \in MinDepthRecords : TRUE) :
          \E q \in CurrentRecords : IsProperPrefix(x.program_path, q.program_path)

\* the payloads with inherit_<a> false and no data for a, the other three
\* aspects sharing any one setting
NoDataPayloads(a) ==
    {Payload(u, "effort", Null,
             [x \in Aspects |-> IF x = a THEN FALSE ELSE o[1]],
             [x \in Aspects |-> IF x = a THEN Null ELSE o[2]],
             NoLinks) : u \in CallUuidArgs, o \in CallSettings}

\* C19: a save with inherit_X false and no data for X leaves the X table as
\* it was; an updated effort keeps the local_X it had, set or null, and a
\* created effort has local_X null
C19_NoDataLeavesProfileAlone ==
    \A a \in Aspects :
        \A p \in {q \in NoDataPayloads(a) : CanSave(MaxCallEfforts, q)} :
            LET r == SaveNow(p)
                instance == EffortByUuid(efforts, p.uuid)
            IN  /\ r.result \in {"created", "updated"}
                /\ r.profiles[a] = profiles[a]
                /\ ~r.efforts[r.target].inherit[a]
                /\ r.efforts[r.target].local[a]
                     = IF instance # Null THEN efforts[instance].local[a] ELSE Null

\* an update left an effort with inherit_developer_setup false and no
\* local developer setup
C19_Witness ==
    /\ outcome.op = "save" /\ outcome.result = "updated" /\ outcome.rows = 0
    /\ ~efforts[outcome.target].inherit[DEV]
    /\ efforts[outcome.target].local[DEV] = Null
    /\ Cardinality(DOMAIN efforts) = 2

\* the efforts whose uuid is u
EffortsWithUuid(u) == {e \in DOMAIN efforts : efforts[e].uuid = u}

\* C20: after a save the effort's parent is the effort whose uuid the
\* payload names as parent when there is one, else null: a parent uuid that
\* matches nothing does not abort the save, and an update replaces the
\* parent the effort had
C20_ParentIsNamedEffortElseNull ==
    \A p \in {q \in CallPayloads : CanSave(MaxCallEfforts, q)} :
        LET r == SaveNow(p)
            named == EffortsWithUuid(p.parent_uuid)
        IN  /\ r.result \in {"created", "updated"}
            /\ IF p.parent_uuid # Null /\ named # {}
               THEN r.efforts[r.target].parent \in named
               ELSE r.efforts[r.target].parent = Null

\* an effort has a parent, and saving it again with a parent uuid no effort
\* has leaves it without one
C20_Witness ==
    \E e \in DOMAIN efforts :
        /\ efforts[e].parent \notin {Null, e}
        /\ outcome.op = "save" /\ outcome.target = e
        /\ \E p \in CallPayloads :
               /\ p.uuid = efforts[e].uuid
               /\ p.parent_uuid = UnknownUuid
               /\ SaveNow(p).result = "updated"
               /\ SaveNow(p).efforts[e].parent = Null

(***************************************************************************)
(* A delete and a save of the same effort side by side.  The delete reads  *)
(* the effort before its transaction opens and takes no lock on it (lines  *)
(* 65-71); the save is the transaction of lines 215-335, step by step.     *)
(***************************************************************************)
Saver == 1
Deleter == 2

\* the saves of the race: one aspect gets its own data
RacePayloads ==
    {FocusPayload(SharedUuid, a, <<FALSE, d>>) : a \in Aspects, d \in DataValues}

\* lines 65-69: objects.get(uuid=...) outside the atomic block; False is
\* returned when no row matches
DelLookup(t, effort_uuid) ==
    /\ txns[t].pc = "idle"
    /\ LET effort == EffortByUuid(efforts, effort_uuid)
       IN  IF effort = Null
           THEN /\ txns' = [txns EXCEPT ![t].pc = "del_absent"]
                /\ outcome' = [NoOutcome EXCEPT !.op = "delete", !.result = "not_found"]
           ELSE /\ txns' = [txns EXCEPT ![t] =
                              [pc |-> "del_looked", payload |-> NoPayload,
                               instance |-> effort, row |-> efforts[effort]]]
                /\ UNCHANGED outcome
    /\ UNCHANGED <<storeVars, programRows, readVars>>

\* lines 71-84: inside the atomic block, the local profiles named by the
\* *_id values the effort was read with are hard-deleted
DelProfiles(t) ==
    /\ txns[t].pc = "del_looked"
    /\ profiles' = DeleteLocalProfiles(profiles, txns[t].row.local, DeleteOrder)
    /\ txns' = [txns EXCEPT ![t].pc = "del_profiled"]
    /\ UNCHANGED <<efforts, nextPk, linkFieldIsM2M, programRows, outcome, readVars>>

\* line 85: effort.hard_delete() issues the DELETE of the effort row, once
\* no other open transaction holds a write on that row
DelEffort(t) ==
    /\ txns[t].pc = "del_profiled"
    /\ \A o \in Callers \ {t} :
          ~(txns[o].pc = "written" /\ txns[o].instance = txns[t].instance)
    /\ txns' = [txns EXCEPT ![t].pc = "deleting"]
    /\ UNCHANGED <<storeVars, programRows, outcome, readVars>>

\* the atomic block ends: the effort row is gone, and True is returned
DelCommit(t) ==
    /\ txns[t].pc = "deleting"
    /\ efforts' = on_delete_effort(efforts, txns[t].instance, linkFieldIsM2M)
    /\ txns' = [txns EXCEPT ![t].pc = "del_done"]
    /\ outcome' = [NoOutcome EXCEPT !.op = "delete", !.result = "deleted",
                                    !.target = txns[t].instance, !.ret = TRUE]
    /\ UNCHANGED <<profiles, nextPk, linkFieldIsM2M, programRows, readVars>>

\* line 335 next to a delete: instance.save() waits for an open DELETE of
\* its row; an UPDATE that then matches no row is followed by an INSERT
SaveWriteEffort(t) ==
    /\ \A o \in Callers \ {t} :
          ~(txns[o].pc = "deleting" /\ txns[o].instance = txns[t].instance)
    /\ TxnWriteEffort(t)

DeleteRaceNext ==
    \/ \E p \in RacePayloads : TxnLookup(Saver, p)
    \/ TxnProfiles(Saver)
    \/ SaveWriteEffort(Saver)
    \/ TxnCommit(Saver)
    \/ DelLookup(Deleter, SharedUuid)
    \/ DelProfiles(Deleter)
    \/ DelEffort(Deleter)
    \/ DelCommit(Deleter)

DeleteRaceSpec == ConcInit /\ [][DeleteRaceNext]_vars

\* what a caller can tell of a store, by uuid: the efforts with the
\* contents of their local profiles, and the number of rows per profile table
UuidView(effs, profs) ==
    [rows |-> {[uuid |-> effs[e].uuid,
                row |-> StoreView(effs, profs).rows[e]] : e \in DOMAIN effs},
     count |-> StoreView(effs, profs).count]

\* the store after the save with payload p, then the delete
SaveThenDelete(p) ==
    LET first == save_efforts_for_program(ConcStore, EffortProgramRows, TRUE, 1, p, NoFault)
        second == delete_effort_by_uuid(
                      [efforts |-> first.efforts, profiles |-> first.profiles,
                       nextPk |-> first.nextPk], TRUE, SharedUuid)
    IN  UuidView(second.efforts, second.profiles)

\* the store after the delete, then the save with payload p
DeleteThenSave(p) ==
    LET first == delete_effort_by_uuid(ConcStore, TRUE, SharedUuid)
        second == save_efforts_for_program(
                      [efforts |-> first.efforts, profiles |-> first.profiles,
                       nextPk |-> first.nextPk],
                      EffortProgramRows, TRUE, 1, p, NoFault)
    IN  UuidView(second.efforts, second.profiles)

\* the profile rows no effort points at
UnreferencedProfiles ==
    {<<a, i>> \in Aspects \X (1..MaxEfforts + 1) :
        /\ i \in DOMAIN profiles[a]
        /\ \A e \in DOMAIN efforts : efforts[e].local[a] # i}

\* C18: once a delete and a save of the same effort are both through, the
\* store is what the two leave when one runs after the other, in one of the
\* two orders, and no profile row is left that no effort points at
C18_DeleteAndSaveSerializable ==
    (txns[Saver].pc = "done" /\ txns[Deleter].pc = "del_done") =>
        /\ UuidView(efforts, profiles)
             \in {SaveThenDelete(txns[Saver].payload),
                  DeleteThenSave(txns[Saver].payload)}
        /\ UnreferencedProfiles = {}

(***************************************************************************)
(* Saves that name linked efforts, with the relation stored either way.    *)
(***************************************************************************)
MaxLinkEfforts == 2     \* efforts ever created in this specification

\* raw items: a uuid some effort may have, a storage key in a dict, a
\* padded uuid no effort has, a dict without a recognised key
LinkItems ==
    {PlainItem(UuidIdent(1)), KeyedItem(DigitsIdent(2)),
     PaddedItem(UuidIdent(UnknownUuid)), KeylessItem}

\* the lists a payload names: empty, one item, or two items the first of
\* which can resolve
LinkLists ==
    {<<>>} \cup {<<i>> : i \in LinkItems}
        \cup {<<i, j>> : i \in {PlainItem(UuidIdent(1)), KeyedItem(DigitsIdent(2))},
                         j \in LinkItems}

LinkPayloads ==
    {UniformPayload(u, Null, <<TRUE, Null>>, lk) :
        u \in CallUuidArgs, lk \in {NoLinks} \cup {Links(l) : l \in LinkLists}}

LinkInit ==
    /\ EmptyStore
    /\ NothingRead
    /\ programRows = EffortProgramRows
    /\ linkFieldIsM2M \in BOOLEAN

LinkSaveStep == \E p \in LinkPayloads : SaveEffort(MaxLinkEfforts, 1, p, NoFault)

LinkNext == LinkSaveStep \/ DeleteStep

LinkSpec == LinkInit /\ [][LinkNext]_vars

\* the efforts of effs a raw item names: the one with that uuid, or the one
\* with that storage key when the identifier is all digits
NamedBy(effs, raw_item) ==
    LET identifier == extract_identifier(raw_item)
        by_uuid == {e \in DOMAIN effs :
                      identifier.kind = "uuid" /\ effs[e].uuid = identifier.v}
    IN  IF by_uuid # {} THEN by_uuid
        ELSE {e \in DOMAIN effs : identifier.kind = "digits" /\ e = identifier.v}

\* the saves that name a list of linked efforts and can run now
LinkingSaves == {q \in LinkPayloads : q.links.given /\ CanSave(MaxLinkEfforts, q)}

\* C21: with a many-to-many relation, a save whose payload names a list of
\* linked identifiers leaves the effort linked to exactly the efforts the
\* identifiers resolve to: earlier links are gone, unresolved identifiers
\* add nothing
C21_M2MLinksAreTheResolvedSet ==
    linkFieldIsM2M =>
        \A p \in LinkingSaves :
            LET r == SaveNow(p)
            IN  /\ r.result \in {"created", "updated"}
                /\ r.efforts[r.target].linked
                     = UNION {NamedBy(r.efforts, p.links.items[i]) :
                                 i \in 1..Len(p.links.items)}

\* an effort linked to both stored efforts, which a save naming only an
\* unresolvable identifier leaves with no link
C21_Witness ==
    /\ linkFieldIsM2M
    /\ outcome.op = "save" /\ outcome.result = "updated"
    /\ Cardinality(DOMAIN efforts) = 2
    /\ \E e \in DOMAIN efforts :
          /\ efforts[e].linked = DOMAIN efforts
          /\ outcome.target = e
          /\ \E p \in LinkingSaves :
                /\ p.uuid = efforts[e].uuid
                /\ p.links.items = <<PaddedItem(UuidIdent(UnknownUuid))>>
                /\ SaveNow(p).efforts[e].linked = {}

GetProgramById(id) ==
    /\ programResult' \in get_program_by_id(programRows, id)
    /\ outcome' = [NoOutcome EXCEPT !.op = "program", !.result = programResult'.kind]
    /\ UNCHANGED <<storeVars, programRows, cache, now, treeResult, flatResult, txns,
                   effortsResult>>

GetProgramStep ==
    \E id \in VersionProgramIds \cup {UnusedProgramId} : GetProgramById(id)

ResolverNext == GetAllPrograms \/ GetEffortsStep \/ GetProgramStep

ResolverSpec == VersionInit /\ [][ResolverNext]_vars

\* the program_ids of the active programs that have rows
ActiveProgramIds == {r.program_id : r \in {q \in programRows : q.active}}

\* the row of highest date among the rows of program_id id, the highest
\* storage key among equal dates
LatestRowsOf(id) ==
    {r \in programRows :
        /\ r.program_id = id
        /\ \A q \in programRows :
              q.program_id = id =>
                 (q.date < r.date \/ (q.date = r.date /\ q.pk <= r.pk))}

\* C23: the flat list of current programs holds exactly one row per
\* program_id of an active program and none of an inactive one; the row is
\* the program_id's row of highest date, of highest storage key among equal
\* dates; the list is in ascending program_id order, and get_all_programs
\* returns it in that order
C23_OneLatestRowPerActiveProgram ==
    LET list == get_all_program_dicts(programRows)
    IN  /\ Len(list) = Cardinality(ActiveProgramIds)
        /\ {list[i].program_id : i \in 1..Len(list)} = ActiveProgramIds
        /\ \A i \in 1..Len(list) :
              \E r \in LatestRowsOf(list[i].program_id) : list[i] = RowDict(r)
        /\ \A i, j \in 1..Len(list) : i < j => list[i].program_id < list[j].program_id
        /\ flatResult.kind = "list" =>
              flatResult.programs =
                  [k \in 1..Len(list) |-> convert_program_catalog_info_to_dto(list[k])]

\* get_all_programs was called on a table in which an active program has
\* two rows of its highest date, dated like the row of an inactive program
C23_Witness ==
    /\ outcome.op = "list" /\ flatResult.kind = "list"
    /\ Len(flatResult.programs) = 1
    /\ \E r, q, x \in programRows :
          /\ r.active /\ r.program_id = q.program_id
          /\ r.pk # q.pk /\ r.date = q.date
          /\ ~x.active /\ x.date = r.date

\* C24: _get_latest_programs, as run by the reads that call it, gives one
\* entry for each program_id that has a row of an active program, carrying
\* the highest date of that program_id's rows, no entry for another
\* program_id, nothing when there is no such row, and the reads leave the
\* stored rows as they were
C24_LatestDatePerActiveProgram ==
    [][outcome'.op \in {"list", "efforts"} =>
          LET latest == get_latest_programs(programRows)
          IN  /\ {g.program_id : g \in latest} = ActiveProgramIds
              /\ Cardinality(latest) = Cardinality(ActiveProgramIds)
              /\ \A g \in latest :
                    /\ \E r \in programRows :
                          r.program_id = g.program_id /\ r.date = g.latest_date
                    /\ \A r \in programRows :
                          r.program_id = g.program_id => r.date <= g.latest_date
              /\ ActiveProgramIds = {} => latest = {}
              /\ programRows' = programRows
              /\ efforts' = efforts
              /\ profiles' = profiles]_vars

\* get_efforts_for_program resolved a row on a table in which an active
\* program has rows of two dates and an inactive program has a row
C24_Witness ==
    /\ outcome.op = "efforts" /\ effortsResult.kind = "list"
    /\ Cardinality(get_latest_programs(programRows)) = 1
    /\ \E r, q, x \in programRows :
          /\ r.active /\ r.program_id = q.program_id /\ q.date < r.date
          /\ ~x.active

\* the stored efforts that were saved under program_id id: those attached
\* to a row of that program_id
SavedUnder(id) ==
    {e \in DOMAIN efforts :
        \E r \in programRows :
            r.pk = efforts[e].program_catalog_info /\ r.program_id = id}

\* C25: get_efforts_for_program(P) on a program_id that has a current row
\* returns a list that holds every stored effort saved under P, whatever
\* the number of version rows of P
C25_SavedEffortsAreListed ==
    (outcome.op = "efforts" /\ CurrentRowsOf(effortsResult.id) # {}) =>
        /\ effortsResult.kind = "list"
        /\ \A e \in SavedUnder(effortsResult.id) :
              efforts[e].uuid \in effortsResult.efforts

\* the efforts reached from e by following parent references, at most as
\* many steps as there are efforts
RECURSIVE Ancestors(_, _)
Ancestors(e, steps) ==
    IF steps = 0 \/ efforts[e].parent = Null THEN {}
    ELSE {efforts[e].parent} \cup Ancestors(efforts[e].parent, steps - 1)

\* C26: the parent relation over the stored efforts is acyclic: no effort
\* is among its own ancestors, so every parent chain ends at an effort
\* without a parent
C26_ParentRelationAcyclic ==
    \A e \in DOMAIN efforts : e \notin Ancestors(e, Cardinality(DOMAIN efforts))

\* the storage keys of the rows of program_id id that carry its highest date
MaxDatePksOf(id) ==
    {r.pk : r \in {x \in programRows :
                     /\ x.program_id = id
                     /\ \A q \in programRows : q.program_id = id => q.date <= x.date}}

\* C27: for a program_id that has a current row, get_program_by_id and
\* get_efforts_for_program resolve a row that carries the highest date of
\* that program_id, whatever the dates of the other programs
C27_ReadsResolveTheLatestRow ==
    /\ (outcome.op = "program" /\ CurrentRowsOf(programResult.id) # {}) =>
          /\ programResult.kind = "program"
          /\ programResult.program \in MaxDatePksOf(programResult.id)
    /\ (outcome.op = "efforts" /\ CurrentRowsOf(effortsResult.id) # {}) =>
          /\ effortsResult.kind = "list"
          /\ effortsResult.program \in MaxDatePksOf(effortsResult.id)

====
